---- MODULE Spec2Model ----
(***************************************************************************)
(* Model of ducktracker_convert.py: find_home, within_tsi, is_same_place   *)
(* and write_out.                                                          *)
(*                                                                         *)
(* Representation of the program's values:                                 *)
(*  - a raw latitude/longitude string of the input is <<>> (the empty      *)
(*    string "") or <<n>>, the decimal n / 10^5 (at most five decimals);   *)
(*  - a '%.4f' string is the integer k with the string's value k / 10^4    *)
(*    (the initial prev_latlon member -1 is -10000: float(-1) = -1.0);     *)
(*  - an entry key "YYYY-MM-DD HH:MM:SS" is <<Y, M, D, h, m, s>>, the      *)
(*    date string "MM/DD/YYYY" is <<M, D, Y>>, the time string "HH:MM:SS"  *)
(*    is <<h, m, s>>, and the empty string "" is <<>>;                     *)
(*  - a Python float is the IEEE-754 double nearest to the decimal it is   *)
(*    parsed from: it is kept as the decimal plus its rounding error.      *)
(***************************************************************************)
EXTENDS Integers, Sequences, FiniteSets, TLC

VARIABLES
    data,           \* write_out's argument: <<[user, entries]>>, in dict order
    rng,            \* the digits the coming randint(0, 9) calls return
    pc,             \* position in write_out
    sink,           \* the output file: "unopened", "open" or "closed"
    out,            \* the lines written to the output file, in order
    u,              \* index in data of the user being processed
    e,              \* number of entries of that user already iterated
    time_at_loc,
    prev_time,
    prev_date,
    prev_latlon,
    home_latlon,
    anon_home_lat,
    anon_home_lon,
    call,           \* a direct call of one of the module's functions
    ret             \* what that call returned

vars == <<data, rng, pc, sink, out, u, e, time_at_loc, prev_time, prev_date,
          prev_latlon, home_latlon, anon_home_lat, anon_home_lon, call, ret>>

scanVars == <<data, rng, pc, sink, out, u, e, time_at_loc, prev_time, prev_date,
              prev_latlon, home_latlon, anon_home_lat, anon_home_lon>>

-----------------------------------------------------------------------------
(* Program constants *)

\* TSI = 5: the temporal sampling interval in minutes
TSI == 5

\* margin = .0002, in units of 10^-4 degree
margin == 2

\* randint(0, 9): the largest digit drawn
MaxDigit == 9

\* the members of the initial prev_latlon = (-1, -1), in units of 10^-4
NoLatLon == -10000

-----------------------------------------------------------------------------
(* Python floats: float(str), float subtraction and comparison, '%.4f' *)

Abs(x) == IF x < 0 THEN -x ELSE x

Sign(x) == IF x < 0 THEN -1 ELSE 1

\* decimals are held in units of 10^-5
DecScale == 10 ^ 5

\* a * b % DecScale for 0 <= a, b < DecScale, without leaving 32 bits
MulMod(a, b) ==
    (((a * (b \div 1000)) % DecScale) * 1000 + a * (b % 1000)) % DecScale

RECURSIVE Pow2Mod(_)
\* 2^q % DecScale
Pow2Mod(q) == IF q <= 13 THEN (2 ^ q) % DecScale
              ELSE MulMod(Pow2Mod(q - 13), 2 ^ 13)

\* The binary exponent p of the decimal n / 10^5 > 0: 2^p <= n / 10^5 < 2^(p+1).
\* Defined for 2^-14 <= n / 10^5 < 2^8, which holds every coordinate and margin.
RECURSIVE BinExp(_, _)
BinExp(n, p) ==
    IF p < 0
    THEN IF n >= DecScale THEN BinExp(n, 0)
         ELSE IF n * (2 ^ (-(p + 1))) >= DecScale THEN BinExp(n, p + 1) ELSE p
    ELSE IF n >= DecScale * (2 ^ (p + 1)) THEN BinExp(n, p + 1) ELSE p

\* The double nearest n / 10^5 (n > 0) is a multiple of 2^-UlpExp(n):
\* it has 53 significant bits.
UlpExp(n) == 52 - BinExp(n, -14)

\* float(s) for the decimal string s = n / 10^5, n > 0: the error
\* float(s) - n / 10^5 in units of 2^-UlpExp(n) / 10^5.  The remainder r of
\* n * 2^UlpExp(n) by 10^5 decides the rounding to nearest; r = 10^5 / 2 (a tie,
\* resolved to even) makes n * 2^(UlpExp(n) + 1) / 10^5 an odd integer, which it
\* is not for UlpExp(n) >= 5.
FloatErr(n) ==
    LET r == MulMod(n % DecScale, Pow2Mod(UlpExp(n)))
    IN  IF 2 * r < DecScale THEN -r ELSE DecScale - r

\* abs(float(a) - float(b)) <= margin for two '%.4f' strings (or -1) a, b
\* in units of 10^-4, as line 90 and 91 compute it.  A nominal difference
\* other than the margin decides the comparison: the rounding errors are
\* below 10^-13.  At a nominal difference of exactly the margin the two floats
\* have one sign and are within a factor of two of each other (the model's
\* coordinates are at least 0.5 in magnitude), the subtraction is exact, and
\* the errors of the two conversions and of the literal .0002 decide.
WithinMargin(a, b) ==
    IF Abs(a - b) # margin THEN Abs(a - b) < margin
    ELSE LET big   == 10 * (IF Abs(a) > Abs(b) THEN Abs(a) ELSE Abs(b))
             small == 10 * (IF Abs(a) > Abs(b) THEN Abs(b) ELSE Abs(a))
             m     == 10 * margin
             sb    == UlpExp(m) - UlpExp(big)
             ss    == UlpExp(m) - UlpExp(small)
         IN  FloatErr(big) * (2 ^ (sb - ss)) - FloatErr(small)
                 <= FloatErr(m) \div (2 ^ ss)

\* '%.4f' % float(s) for the raw decimal string s = n / 10^5: the double's
\* exact value correctly rounded to four decimals, ties (only an exactly
\* representable n / 10^5 is one) to even.
Fmt4(n) ==
    LET a    == Abs(n)
        base == a \div 10
        last == a % 10
        err  == IF a = 0 THEN 0 ELSE FloatErr(a)
        up   == \/ last > 5
                \/ last = 5 /\ err > 0
                \/ last = 5 /\ err = 0 /\ base % 2 = 1
    IN  Sign(n) * (IF up THEN base + 1 ELSE base)

-----------------------------------------------------------------------------
(* find_home *)

Blank == <<>>

\* "lat == "" or lon == """ (lines 37 and 126)
IsBlank(entry) == entry.latitude = Blank \/ entry.longitude = Blank

\* ('%.4f' % float(lat), '%.4f' % float(lon)) (lines 41-42 and 135-136)
Rounded(entry) == <<Fmt4(entry.latitude[1]), Fmt4(entry.longitude[1])>>

\* latlons (lines 29-43): the rounded coordinates of the entries that are
\* not blank, in iteration order
RECURSIVE LatLons(_)
LatLons(entries) ==
    IF entries = <<>> THEN <<>>
    ELSE IF IsBlank(Head(entries)) THEN LatLons(Tail(entries))
    ELSE <<Rounded(Head(entries))>> \o LatLons(Tail(entries))

Count(seq, x) == Cardinality({i \in DOMAIN seq : seq[i] = x})

\* the most common values of a non-empty sequence
Modes(seq) ==
    {seq[i] : i \in {j \in DOMAIN seq :
                        \A k \in DOMAIN seq : Count(seq, seq[k]) <= Count(seq, seq[j])}}

\* the index at which x first occurs in seq
FirstIndex(seq, x) == CHOOSE i \in DOMAIN seq :
                         seq[i] = x /\ \A j \in 1..(i - 1) : seq[j] # x

\* the most common value first met in seq
FirstMode(seq) ==
    CHOOSE x \in Modes(seq) :
        \A y \in Modes(seq) : FirstIndex(seq, x) <= FirstIndex(seq, y)

\* find_home raises (IndexError from latlons[0], line 51) exactly when no
\* entry has both coordinates: mode([]) raises StatisticsError on every
\* Python 3.
FindHomeRaises(entries) == LatLons(entries) = <<>>

\* find_home taking the first coordinate whatever the counts are
find_home_first(entries, multimodal_raises) == LatLons(entries)[1]

\* find_home (lines 29-53) on a history with a non-blank entry.
\* statistics.mode on several equally common values depends on the
\* interpreter: before Python 3.8 it raises StatisticsError (multimodal_raises,
\* and the except branch returns latlons[0]); from 3.8 on it returns the first
\* of them met.
find_home(entries, multimodal_raises) ==
    LET latlons == LatLons(entries)
    IN  IF Cardinality(Modes(latlons)) = 1 THEN FirstMode(latlons)
        ELSE IF multimodal_raises THEN latlons[1]
        ELSE FirstMode(latlons)

-----------------------------------------------------------------------------
(* within_tsi *)

IsLeap(y) == y % 4 = 0 /\ (y % 100 # 0 \/ y % 400 = 0)

DaysInMonth(y, m) ==
    IF m = 2 THEN (IF IsLeap(y) THEN 29 ELSE 28)
    ELSE IF m \in {4, 6, 9, 11} THEN 30 ELSE 31

DaysBeforeMonth(y, m) ==
    <<0, 31, 59, 90, 120, 151, 181, 212, 243, 273, 304, 334>>[m]
        + (IF m > 2 /\ IsLeap(y) THEN 1 ELSE 0)

\* the proleptic Gregorian ordinal of a date, as datetime keeps it
Ordinal(y, m, d) ==
    (y - 1) * 365 + (y - 1) \div 4 - (y - 1) \div 100 + (y - 1) \div 400
        + DaysBeforeMonth(y, m) + d

\* datetime.strptime(date + "-" + time, "%m/%d/%Y-%H:%M:%S") raises
\* ValueError (lines 69-71): here on an empty date or time string and on
\* fields out of range
StrptimeRaises(date, time) ==
    IF date = <<>> \/ time = <<>> THEN TRUE
    ELSE ~ /\ date[1] \in 1..12
           /\ date[3] \in 1..9999
           /\ date[2] \in 1..DaysInMonth(date[3], date[1])
           /\ time[1] \in 0..23 /\ time[2] \in 0..59 /\ time[3] \in 0..61

\* (after - before).total_seconds() (line 72)
TotalSeconds(before_date, before_time, after_date, after_time) ==
    (Ordinal(after_date[3], after_date[1], after_date[2])
        - Ordinal(before_date[3], before_date[1], before_date[2])) * 86400
    + (after_time[1] - before_time[1]) * 3600
    + (after_time[2] - before_time[2]) * 60
    + (after_time[3] - before_time[3])

\* within_tsi with a window closed on both sides: "after" not before "before"
within_tsi_two_sided(before_date, before_time, after_date, after_time) ==
    /\ TotalSeconds(before_date, before_time, after_date, after_time) >= 0
    /\ TotalSeconds(before_date, before_time, after_date, after_time) <= TSI * 60 * 2

\* within_tsi with "<" for "<="
within_tsi_strict(before_date, before_time, after_date, after_time) ==
    TotalSeconds(before_date, before_time, after_date, after_time) < TSI * 60 * 2

within_tsi(before_date, before_time, after_date, after_time) ==
    TotalSeconds(before_date, before_time, after_date, after_time) <= TSI * 60 * 2

-----------------------------------------------------------------------------
(* is_same_place *)

is_same_place(latlon_1, latlon_2) ==
    LET same_lat == WithinMargin(latlon_1[1], latlon_2[1])
        same_lon == WithinMargin(latlon_1[2], latlon_2[2])
    IN  same_lat /\ same_lon

-----------------------------------------------------------------------------
(* write_out *)

Unbound == <<>>

\* the header line (line 108)
Header == [user |-> "User I.D.", date |-> "Date", time |-> "Time",
           lat |-> "Latitude", lon |-> "Longitude",
           dwell |-> "Time at Location"]

\* the date left as "YYYY-MM-DD"
DateOfUnordered(key) == <<key[1], key[2], key[3]>>

\* "date, time = entry.split(" ", 1)", "year, month, day = date.split("-")",
\* "date = "/".join([month, day, year])" (lines 130-132)
DateOf(key) == <<key[2], key[3], key[1]>>

TimeOf(key) == <<key[4], key[5], key[6]>>

\* s[:-1] + str(digit) for a '%.4f' string s (lines 117-118): the sign and
\* every digit but the last are kept
ReplaceLast(s, digit) == Sign(s) * ((Abs(s) \div 10) * 10 + digit)

\* the entries of the user being processed, and the entry the loop of
\* line 121 takes next
Entries == data[u].entries

Entry == Entries[e + 1]

\* NewDwell without the reset of line 143
NewDwellNoGap(latlon, date, time) ==
    IF is_same_place(latlon, prev_latlon) THEN time_at_loc + TSI ELSE 0

\* NewDwell counting the arrival at a new location as one interval
NewDwellCountsArrival(latlon, date, time) ==
    IF is_same_place(latlon, prev_latlon)
    THEN IF within_tsi(prev_date, prev_time, date, time)
         THEN time_at_loc + TSI
         ELSE 0
    ELSE TSI

\* time_at_loc after an entry at latlon, date and time (lines 138-146)
NewDwell(latlon, date, time) ==
    IF is_same_place(latlon, prev_latlon)
    THEN IF within_tsi(prev_date, prev_time, date, time)
         THEN time_at_loc + TSI
         ELSE 0
    ELSE 0

\* NewPrevLatLon storing the coordinate that is written to the row
NewPrevLatLonAnon(latlon) ==
    IF is_same_place(latlon, prev_latlon) THEN prev_latlon
    ELSE IF is_same_place(latlon, home_latlon)
         THEN <<anon_home_lat, anon_home_lon>>
         ELSE latlon

\* NewPrevLatLon storing the coordinate of every entry
NewPrevLatLonLast(latlon) == latlon

\* prev_latlon after an entry at latlon (lines 139 and 145-147)
NewPrevLatLon(latlon) ==
    IF is_same_place(latlon, prev_latlon) THEN prev_latlon ELSE latlon

\* the latitude and longitude written for an entry at latlon (lines 152-155)
RowLatLon(latlon) ==
    IF is_same_place(latlon, home_latlon)
    THEN <<anon_home_lat, anon_home_lon>>
    ELSE latlon

\* out = open(out_filename, "w+") and the header (lines 107-108)
Open ==
    /\ pc = "open"
    /\ sink' = "open"
    /\ out' = <<Header>>
    /\ pc' = "user"
    /\ UNCHANGED <<data, rng, u, e, time_at_loc, prev_time, prev_date,
                   prev_latlon, home_latlon, anon_home_lat, anon_home_lon,
                   call, ret>>

\* StartUser with one draw for both digits
StartUserOneDraw ==
    /\ pc = "user"
    /\ u < Len(data)
    /\ ~FindHomeRaises(data[u + 1].entries)
    /\ u' = u + 1
    /\ e' = 0
    /\ time_at_loc' = 0
    /\ prev_time' = <<>>
    /\ prev_date' = <<>>
    /\ prev_latlon' = <<NoLatLon, NoLatLon>>
    /\ \E multimodal_raises \in BOOLEAN :
          home_latlon' = find_home(data[u + 1].entries, multimodal_raises)
    /\ anon_home_lat' = ReplaceLast(home_latlon'[1], rng[1])
    /\ anon_home_lon' = ReplaceLast(home_latlon'[2], rng[1])
    /\ rng' = SubSeq(rng, 3, Len(rng))
    /\ pc' = "entry"
    /\ UNCHANGED <<data, sink, out, call, ret>>

\* the next user of "for user in data" (lines 110-118)
StartUser ==
    /\ pc = "user"
    /\ u < Len(data)
    /\ ~FindHomeRaises(data[u + 1].entries)
    /\ u' = u + 1
    /\ e' = 0
    /\ time_at_loc' = 0
    /\ prev_time' = <<>>
    /\ prev_date' = <<>>
    /\ prev_latlon' = <<NoLatLon, NoLatLon>>
    /\ \E multimodal_raises \in BOOLEAN :
          home_latlon' = find_home(data[u + 1].entries, multimodal_raises)
    /\ anon_home_lat' = ReplaceLast(home_latlon'[1], rng[1])
    /\ anon_home_lon' = ReplaceLast(home_latlon'[2], rng[2])
    /\ rng' = SubSeq(rng, 3, Len(rng))
    /\ pc' = "entry"
    /\ UNCHANGED <<data, sink, out, call, ret>>

\* the next user has no entry with both coordinates: find_home raises
\* IndexError (line 51) out of write_out, after lines 111-114
StartUserRaises ==
    /\ pc = "user"
    /\ u < Len(data)
    /\ FindHomeRaises(data[u + 1].entries)
    /\ u' = u + 1
    /\ e' = 0
    /\ time_at_loc' = 0
    /\ prev_time' = <<>>
    /\ prev_date' = <<>>
    /\ prev_latlon' = <<NoLatLon, NoLatLon>>
    /\ pc' = "raised"
    /\ UNCHANGED <<data, rng, sink, out, home_latlon, anon_home_lat,
                   anon_home_lon, call, ret>>

\* SkipEntry taking a blank entry for a gap: time_at_loc is reset
SkipEntryResets ==
    /\ pc = "entry"
    /\ e < Len(Entries)
    /\ IsBlank(Entry)
    /\ e' = e + 1
    /\ time_at_loc' = 0
    /\ UNCHANGED <<data, rng, pc, sink, out, u, prev_time, prev_date,
                   prev_latlon, home_latlon, anon_home_lat, anon_home_lon,
                   call, ret>>

\* an entry with a blank coordinate: "continue" (lines 121-127)
SkipEntry ==
    /\ pc = "entry"
    /\ e < Len(Entries)
    /\ IsBlank(Entry)
    /\ e' = e + 1
    /\ UNCHANGED <<data, rng, pc, sink, out, u, time_at_loc, prev_time,
                   prev_date, prev_latlon, home_latlon, anon_home_lat,
                   anon_home_lon, call, ret>>

\* the entry is at prev_latlon and within_tsi raises ValueError on the
\* previous date and time (lines 139-140, 70)
ScanEntryRaises ==
    /\ pc = "entry"
    /\ e < Len(Entries)
    /\ ~IsBlank(Entry)
    /\ is_same_place(Rounded(Entry), prev_latlon)
    /\ (StrptimeRaises(prev_date, prev_time)
          \/ StrptimeRaises(DateOf(Entry.key), TimeOf(Entry.key)))
    /\ pc' = "raised"
    /\ UNCHANGED <<data, rng, sink, out, u, e, time_at_loc, prev_time,
                   prev_date, prev_latlon, home_latlon, anon_home_lat,
                   anon_home_lon, call, ret>>

\* ScanEntry keeping prev_time and prev_date on the reset of line 143
ScanEntryKeepsTimeOnGap ==
    /\ pc = "entry"
    /\ e < Len(Entries)
    /\ ~IsBlank(Entry)
    /\ LET date   == DateOf(Entry.key)
           time   == TimeOf(Entry.key)
           latlon == Rounded(Entry)
           gap    == IF is_same_place(latlon, prev_latlon)
                     THEN ~within_tsi(prev_date, prev_time, date, time)
                     ELSE FALSE
       IN  /\ is_same_place(latlon, prev_latlon)
                 => /\ ~StrptimeRaises(prev_date, prev_time)
                    /\ ~StrptimeRaises(date, time)
           /\ time_at_loc' = NewDwell(latlon, date, time)
           /\ prev_latlon' = NewPrevLatLon(latlon)
           /\ prev_time' = IF gap THEN prev_time ELSE time
           /\ prev_date' = IF gap THEN prev_date ELSE date
           /\ out' = Append(out,
                        [user  |-> data[u].user,
                         date  |-> date,
                         time  |-> time,
                         lat   |-> RowLatLon(latlon)[1],
                         lon   |-> RowLatLon(latlon)[2],
                         dwell |-> time_at_loc'])
    /\ e' = e + 1
    /\ UNCHANGED <<data, rng, pc, sink, u, home_latlon, anon_home_lat,
                   anon_home_lon, call, ret>>

\* an entry with both coordinates (lines 121-159)
ScanEntry ==
    /\ pc = "entry"
    /\ e < Len(Entries)
    /\ ~IsBlank(Entry)
    /\ LET date   == DateOf(Entry.key)
           time   == TimeOf(Entry.key)
           latlon == Rounded(Entry)
       IN  /\ is_same_place(latlon, prev_latlon)
                 => /\ ~StrptimeRaises(prev_date, prev_time)
                    /\ ~StrptimeRaises(date, time)
           /\ time_at_loc' = NewDwell(latlon, date, time)
           /\ prev_latlon' = NewPrevLatLon(latlon)
           /\ prev_time' = time
           /\ prev_date' = date
           /\ out' = Append(out,
                        [user  |-> data[u].user,
                         date  |-> date,
                         time  |-> time,
                         lat   |-> RowLatLon(latlon)[1],
                         lon   |-> RowLatLon(latlon)[2],
                         dwell |-> time_at_loc'])
    /\ e' = e + 1
    /\ UNCHANGED <<data, rng, pc, sink, u, home_latlon, anon_home_lat,
                   anon_home_lon, call, ret>>

\* the loop of line 121 is exhausted: back to the loop of line 110
EndUser ==
    /\ pc = "entry"
    /\ e = Len(Entries)
    /\ pc' = "user"
    /\ UNCHANGED <<data, rng, sink, out, u, e, time_at_loc, prev_time,
                   prev_date, prev_latlon, home_latlon, anon_home_lat,
                   anon_home_lon, call, ret>>

\* the loop of line 110 is exhausted: out.close() (line 161)
Close ==
    /\ pc = "user"
    /\ u = Len(data)
    /\ sink' = "closed"
    /\ pc' = "done"
    /\ UNCHANGED <<data, rng, out, u, e, time_at_loc, prev_time, prev_date,
                   prev_latlon, home_latlon, anon_home_lat, anon_home_lon,
                   call, ret>>

Next ==
    \/ Open
    \/ StartUser
    \/ StartUserRaises
    \/ SkipEntry
    \/ ScanEntry
    \/ ScanEntryRaises
    \/ EndUser
    \/ Close

-----------------------------------------------------------------------------
(* The inputs explored *)

\* the most entries of the histories enumerated in AllHistories
MaxEntries == 3

\* Entry keys, in chronological order, across the end of a year: from one to
\* the next 5 minutes, 5 minutes, 1 second, 10 minutes.
Keys == << <<2023, 12, 31, 23, 50, 0>>,
           <<2023, 12, 31, 23, 55, 0>>,
           <<2024, 1, 1, 0, 0, 0>>,
           <<2024, 1, 1, 0, 0, 1>>,
           <<2024, 1, 1, 0, 10, 1>> >>

\* Raw latitude/longitude strings of an entry:
\*   ("40.00004", "-74.99996")  rounded to ('40.0000', '-75.0000');
\*   ("40.00016", "-75")  rounded to ('40.0002', '-75.0000'): is_same_place
\*       with the first;
\*   ("40.0004", "-75")   is_same_place with the second and not the first;
\*   ("40", "-74.9998")   0.0002 from the first, and not is_same_place with it;
\*   ("-1", "-1")         the initial prev_latlon;
\*   a blank latitude, a blank longitude.
FixA == << <<4000004>>, <<-7499996>> >>

FixB == << <<4000016>>, <<-7500000>> >>

FixC == << <<4000040>>, <<-7500000>> >>

FixF == << <<4000000>>, <<-7499980>> >>

FixS == << <<-100000>>, <<-100000>> >>

Fixes == { FixA, FixB, FixC, FixF, FixS,
           << Blank, <<-7500000>> >>,
           << <<4000000>>, Blank >> }

Ping(k, fix) == [key |-> Keys[k], latitude |-> fix[1], longitude |-> fix[2]]

\* the histories of n entries with keys in ascending order from Keys[lo] on
RECURSIVE Histories(_, _)
Histories(n, lo) ==
    IF n = 0 THEN {<<>>}
    ELSE UNION {{<<Ping(k, fix)>> \o rest : rest \in Histories(n - 1, k + 1)} :
                   k \in lo..Len(Keys), fix \in Fixes}

AllHistories == UNION {Histories(n, 1) : n \in 0..MaxEntries}

User(name, entries) == [user |-> name, entries |-> entries]

\* the histories of a second user: no entry; one entry; two entries of
\* different raw strings at one rounded coordinate, around a blank one
OtherHistories ==
    { <<>>,
      <<Ping(2, FixB)>>,
      <<Ping(1, FixA),
        Ping(2, << Blank, <<-7500000>> >>),
        Ping(3, << <<3999996>>, <<-7500004>> >>)>> }

\* histories whose iteration order is not the chronological one ("for entry
\* in data[user]" follows the order of the JSON object, line 121): 5 minutes
\* back twice; 20 minutes and 1 second back over the end of the year, then 5
\* minutes on; 1 second back, then 10 minutes and 1 second on
ReorderedHistories ==
    { <<Ping(3, FixA), Ping(2, FixA), Ping(1, FixA)>>,
      <<Ping(5, FixB), Ping(1, FixB), Ping(2, FixC)>>,
      <<Ping(4, FixC), Ping(3, FixC), Ping(5, FixC)>> }

\* pings at one coordinate at 09:00, 09:05, 09:20 and 09:25
GapHistories ==
    { << [key |-> <<2024, 1, 1, 9, 0, 0>>,
          latitude |-> FixA[1], longitude |-> FixA[2]],
         [key |-> <<2024, 1, 1, 9, 5, 0>>,
          latitude |-> FixA[1], longitude |-> FixA[2]],
         [key |-> <<2024, 1, 1, 9, 20, 0>>,
          latitude |-> FixA[1], longitude |-> FixA[2]],
         [key |-> <<2024, 1, 1, 9, 25, 0>>,
          latitude |-> FixA[1], longitude |-> FixA[2]] >> }

ScanData ==
    {<<User("u1", h)>> :
        h \in AllHistories \cup ReorderedHistories \cup GapHistories}
    \cup {<<User("u1", h), User("u2", o)>> :
              h \in UNION {Histories(n, 1) : n \in 0..(MaxEntries - 1)},
              o \in OtherHistories}
    \cup {<<User("u1", o), User("u2", h)>> :
              h \in UNION {Histories(n, 1) : n \in 0..(MaxEntries - 1)},
              o \in OtherHistories}

\* the digits the random generator returns in one run
ScanDigits == { <<7, 3, 0, 0>> }

\* one user at three places, every pair of digits
AnonFixes == { FixA, FixB, FixC }

RECURSIVE AnonHistories(_)
AnonHistories(n) ==
    IF n = 0 THEN {<<>>}
    ELSE {rest \o <<Ping(n, fix)>> : rest \in AnonHistories(n - 1), fix \in AnonFixes}

AnonData == {<<User("u1", h)>> : h \in AnonHistories(1) \cup AnonHistories(2)}

Digit == 0..MaxDigit

AnonDigits == {<<a, b>> : a \in Digit, b \in Digit}

Idle ==
    /\ call = <<>>
    /\ ret = <<>>

InitScan ==
    /\ data \in ScanData
    /\ rng \in ScanDigits

InitAnon ==
    /\ data \in AnonData
    /\ rng \in AnonDigits

\* write_out(data, out_filename) is called
Init ==
    /\ InitScan \/ InitAnon
    /\ pc = "open"
    /\ sink = "unopened"
    /\ out = <<>>
    /\ u = 0
    /\ e = 0
    /\ time_at_loc = Unbound
    /\ prev_time = Unbound
    /\ prev_date = Unbound
    /\ prev_latlon = Unbound
    /\ home_latlon = Unbound
    /\ anon_home_lat = Unbound
    /\ anon_home_lon = Unbound
    /\ Idle

Spec == Init /\ [][Next]_vars

-----------------------------------------------------------------------------
(* Direct calls of find_home, within_tsi and is_same_place *)

\* write_out is not running
NoScan ==
    /\ data = <<>>
    /\ rng = <<>>
    /\ pc = "idle"
    /\ sink = "unopened"
    /\ out = <<>>
    /\ u = 0
    /\ e = 0
    /\ time_at_loc = Unbound
    /\ prev_time = Unbound
    /\ prev_date = Unbound
    /\ prev_latlon = Unbound
    /\ home_latlon = Unbound
    /\ anon_home_lat = Unbound
    /\ anon_home_lon = Unbound

\* find_home(data, user) returns
CallFindHome ==
    /\ call # <<>> /\ call.fn = "find_home"
    /\ ret = <<>>
    /\ ~FindHomeRaises(call.entries)
    /\ ret' = <<find_home(call.entries, call.multimodal_raises)>>
    /\ UNCHANGED <<scanVars, call>>

\* find_home(data, user) raises IndexError
CallFindHomeRaises ==
    /\ call # <<>> /\ call.fn = "find_home"
    /\ ret = <<>>
    /\ FindHomeRaises(call.entries)
    /\ ret' = <<"IndexError">>
    /\ UNCHANGED <<scanVars, call>>

\* within_tsi(before_date, before_time, after_date, after_time) returns
CallWithinTsi ==
    /\ call # <<>> /\ call.fn = "within_tsi"
    /\ ret = <<>>
    /\ ~StrptimeRaises(call.before_date, call.before_time)
    /\ ~StrptimeRaises(call.after_date, call.after_time)
    /\ ret' = <<within_tsi(call.before_date, call.before_time,
                           call.after_date, call.after_time)>>
    /\ UNCHANGED <<scanVars, call>>

\* within_tsi raises ValueError
CallWithinTsiRaises ==
    /\ call # <<>> /\ call.fn = "within_tsi"
    /\ ret = <<>>
    /\ (StrptimeRaises(call.before_date, call.before_time)
          \/ StrptimeRaises(call.after_date, call.after_time))
    /\ ret' = <<"ValueError">>
    /\ UNCHANGED <<scanVars, call>>

\* is_same_place(latlon_1, latlon_2) returns
CallIsSamePlace ==
    /\ call # <<>> /\ call.fn = "is_same_place"
    /\ ret = <<>>
    /\ ret' = <<is_same_place(call.latlon_1, call.latlon_2)>>
    /\ UNCHANGED <<scanVars, call>>

(* find_home: the histories explored *)

\* the most entries of a history given to find_home
MaxHomeEntries == 5

HomeFixes == { FixA, FixB, FixC, << Blank, <<-7500000>> >> }

\* the histories of n entries, one minute apart
RECURSIVE HomeHistories(_)
HomeHistories(n) ==
    IF n = 0 THEN {<<>>}
    ELSE {rest \o <<[key |-> <<2024, 1, 1, 0, n, 0>>,
                     latitude |-> fix[1], longitude |-> fix[2]]>> :
             rest \in HomeHistories(n - 1), fix \in HomeFixes}

InitHome ==
    /\ NoScan
    /\ call \in {[fn |-> "find_home", entries |-> h, multimodal_raises |-> b] :
                    h \in UNION {HomeHistories(n) : n \in 0..MaxHomeEntries},
                    b \in BOOLEAN}
    /\ ret = <<>>

NextHome == CallFindHome \/ CallFindHomeRaises

SpecHome == InitHome /\ [][NextHome]_vars

(* within_tsi: the measurements explored *)

SecondsOfDay(time) == time[1] * 3600 + time[2] * 60 + time[3]

TimeAt(seconds) ==
    <<seconds \div 3600, (seconds % 3600) \div 60, seconds % 60>>

\* the calendar day after and before the date <<month, day, year>>
NextDay(date) ==
    IF date[2] < DaysInMonth(date[3], date[1]) THEN <<date[1], date[2] + 1, date[3]>>
    ELSE IF date[1] < 12 THEN <<date[1] + 1, 1, date[3]>>
    ELSE <<1, 1, date[3] + 1>>

PrevDay(date) ==
    IF date[2] > 1 THEN <<date[1], date[2] - 1, date[3]>>
    ELSE IF date[1] > 1
         THEN <<date[1] - 1, DaysInMonth(date[3], date[1] - 1), date[3]>>
    ELSE <<12, 31, date[3] - 1>>

\* the measurement <<date, time>> that is offset seconds (at most a day
\* either way) after the measurement stamp
Shift(stamp, offset) ==
    LET total == SecondsOfDay(stamp[2]) + offset
    IN  IF total >= 86400 THEN <<NextDay(stamp[1]), TimeAt(total - 86400)>>
        ELSE IF total < 0 THEN <<PrevDay(stamp[1]), TimeAt(total + 86400)>>
        ELSE <<stamp[1], TimeAt(total)>>

Stamps == { << <<12, 31, 2023>>, <<23, 50, 0>> >>,
            << <<12, 31, 2023>>, <<23, 55, 0>> >>,
            << <<1, 1, 2024>>, <<0, 0, 0>> >>,
            << <<2, 28, 2023>>, <<23, 50, 0>> >>,
            << <<2, 28, 2024>>, <<23, 59, 59>> >>,
            << <<2, 29, 2024>>, <<12, 0, 0>> >>,
            << <<3, 1, 2024>>, <<0, 5, 0>> >>,
            << <<6, 30, 2024>>, <<23, 49, 59>> >>,
            << <<12, 31, 2024>>, <<23, 50, 0>> >>,
            << <<1, 1, 2100>>, <<0, 9, 59>> >> }

Offsets == { -86400, -601, -600, -1, 0, 1, 300, 599, 600, 601, 900,
             85800, 86399, 86400 }

InitTime ==
    /\ NoScan
    /\ call \in
          {[fn |-> "within_tsi",
            before_date |-> b[1], before_time |-> b[2],
            after_date |-> Shift(b, off)[1], after_time |-> Shift(b, off)[2]] :
               b \in Stamps, off \in Offsets}
          \cup {[fn |-> "within_tsi",
                 before_date |-> <<>>, before_time |-> <<>>,
                 after_date |-> b[1], after_time |-> b[2]] : b \in Stamps}
    /\ ret = <<>>

NextTime == CallWithinTsi \/ CallWithinTsiRaises

SpecTime == InitTime /\ [][NextTime]_vars

(* is_same_place: the coordinates explored *)

Places ==
    {<<lat, lon>> : lat \in 399999..400003, lon \in (-750002)..(-749999)}
    \cup {<<lat, lon>> : lat \in {-10002, NoLatLon}, lon \in {NoLatLon, -9998}}

InitGeo ==
    /\ NoScan
    /\ call \in {[fn |-> "is_same_place", latlon_1 |-> a, latlon_2 |-> b] :
                    a \in Places, b \in Places}
    /\ ret = <<>>

NextGeo == CallIsSamePlace

SpecGeo == InitGeo /\ [][NextGeo]_vars

-----------------------------------------------------------------------------
(* The claims *)

\* the entries with both coordinates, in order
NotBlank(entry) == ~IsBlank(entry)

ValidPings(entries) == SelectSeq(entries, NotBlank)

RemoveAt(seq, i) == SubSeq(seq, 1, i - 1) \o SubSeq(seq, i + 1, Len(seq))

\* two coordinates at most 0.0002 apart on each axis
SameCoordinate(a, b) ==
    Abs(a[1] - b[1]) <= margin /\ Abs(a[2] - b[2]) <= margin

\* seconds from the entry key k1 to the entry key k2
ElapsedSeconds(k1, k2) == TotalSeconds(DateOf(k1), TimeOf(k1), DateOf(k2), TimeOf(k2))

\* write_out is about to process an entry with both coordinates
AtValidPing == pc = "entry" /\ e < Len(Entries) /\ ~IsBlank(Entry)

\* the step writes one row
WritesRow == Len(out') = Len(out) + 1

\* the sign and every digit but the last of a '%.4f' string
AllButLast(s) == <<Sign(s), Abs(s) \div 10>>

(* C1: a ping with a blank latitude or longitude writes no row, leaves
   time_at_loc, prev_latlon, prev_date and prev_time as they are and lets the
   scan go on, and the home found is the home find_home finds for the history
   without that ping. *)
C1_BlankPingIgnored ==
    [][ (pc = "entry" /\ e < Len(Entries) /\ IsBlank(Entry))
          => /\ out' = out
             /\ time_at_loc' = time_at_loc
             /\ prev_latlon' = prev_latlon
             /\ prev_date' = prev_date
             /\ prev_time' = prev_time
             /\ pc' = "entry"
             /\ \A b \in BOOLEAN :
                   find_home(RemoveAt(Entries, e + 1), b) = find_home(Entries, b)
             /\ \E b \in BOOLEAN :
                   home_latlon = find_home(RemoveAt(Entries, e + 1), b) ]_vars

\* a blank ping was skipped while time_at_loc was TSI
C1_Witness ==
    /\ pc = "entry"
    /\ e >= 1
    /\ IsBlank(Entries[e])
    /\ time_at_loc = TSI
    /\ Len(out) >= 3

\* prev_latlon when the i-th ping of v arrives (lines 114, 139, 147)
RECURSIVE StoredBefore(_, _)
StoredBefore(v, i) ==
    IF i = 1 THEN <<NoLatLon, NoLatLon>>
    ELSE LET stored == StoredBefore(v, i - 1)
         IN  IF is_same_place(Rounded(v[i - 1]), stored)
             THEN stored ELSE Rounded(v[i - 1])

\* the pings s..i of v are at one rounded coordinate, each exactly TSI
\* minutes after the one before, and ping s is the first ping or arrives from
\* a different location
IsRun(v, s, i) ==
    /\ \A k \in (s + 1)..i :
          /\ Rounded(v[k]) = Rounded(v[s])
          /\ ElapsedSeconds(v[k - 1].key, v[k].key) = TSI * 60
    /\ s = 1 \/ ~SameCoordinate(Rounded(v[s]), StoredBefore(v, s))

(* C2: the n-th ping of a run of valid pings at one rounded coordinate, TSI
   minutes apart, whose first ping is the user's first valid ping or arrives
   from a different location, gets a row with dwell (n-1)*TSI. *)
C2_RunDwell ==
    [][ AtValidPing
          => LET v == ValidPings(SubSeq(Entries, 1, e + 1))
                 i == Len(v)
             IN  \A s \in 1..i :
                    IsRun(v, s, i)
                       => /\ WritesRow
                          /\ out'[Len(out')].dwell = (i - s) * TSI ]_vars

(* C3: a valid ping at the stored previous coordinate, more than 2*TSI
   minutes after the previous valid ping, gets a row with dwell 0. *)
C3_GapResetsDwell ==
    [][ (/\ AtValidPing
         /\ ValidPings(SubSeq(Entries, 1, e)) # <<>>
         /\ SameCoordinate(Rounded(Entry), prev_latlon)
         /\ LET v == ValidPings(SubSeq(Entries, 1, e))
            IN  ElapsedSeconds(v[Len(v)].key, Entry.key) > 2 * TSI * 60)
          => /\ WritesRow
             /\ out'[Len(out')].dwell = 0
             /\ time_at_loc' = 0 ]_vars

\* three pings at one coordinate: the second continues (dwell TSI), the
\* third comes after a gap and is written with dwell 0
C3_Witness ==
    /\ pc = "entry"
    /\ e >= 3
    /\ \A k \in (e - 2)..e : ~IsBlank(Entries[k])
    /\ \A k \in (e - 2)..e : Rounded(Entries[k]) = Rounded(Entries[e])
    /\ ElapsedSeconds(Entries[e - 1].key, Entries[e].key) > 2 * TSI * 60
    /\ Len(out) >= 4
    /\ out[Len(out) - 1].dwell = TSI
    /\ out[Len(out)].dwell = 0

(* C4: a row of a ping within 0.0002 of the home on both axes carries the
   home latitude and longitude with only the last character replaced by a
   digit; any other row carries the ping's coordinate rounded to 4 decimals. *)
C4_HomeRowsAnonymized ==
    [][ (AtValidPing /\ WritesRow)
          => LET real == Rounded(Entry)
                 row  == out'[Len(out')]
             IN  IF SameCoordinate(real, home_latlon)
                 THEN /\ AllButLast(row.lat) = AllButLast(home_latlon[1])
                      /\ AllButLast(row.lon) = AllButLast(home_latlon[2])
                      /\ Abs(row.lat) % 10 \in 0..9
                      /\ Abs(row.lon) % 10 \in 0..9
                 ELSE /\ row.lat = real[1]
                      /\ row.lon = real[2]
                      /\ Abs(10 * real[1] - Entry.latitude[1]) <= 5
                      /\ Abs(10 * real[2] - Entry.longitude[1]) <= 5 ]_vars

\* find_home has returned
FindHomeReturned ==
    /\ call # <<>>
    /\ call.fn = "find_home"
    /\ ret # <<>>
    /\ ~FindHomeRaises(call.entries)

\* how many entries with both coordinates round to the coordinate c
Occurrences(entries, c) ==
    Cardinality({i \in DOMAIN entries :
                    ~IsBlank(entries[i]) /\ Rounded(entries[i]) = c})

Visited(entries) ==
    {Rounded(entries[i]) : i \in {j \in DOMAIN entries : ~IsBlank(entries[j])}}

\* c occurs strictly more often than every other coordinate
StrictlyMostFrequent(entries, c) ==
    \A d \in Visited(entries) \ {c} :
        Occurrences(entries, c) > Occurrences(entries, d)

(* C5: find_home returns the rounded coordinate that occurs strictly more
   often than every other among the valid pings of the history. *)
C5_UniqueModeIsHome ==
    FindHomeReturned
       => \A c \in Visited(call.entries) :
             StrictlyMostFrequent(call.entries, c) => ret[1] = c

\* the home is the strictly most frequent coordinate, it is not the first
\* valid one, and the history has a blank ping
C5_Witness ==
    /\ FindHomeReturned
    /\ StrictlyMostFrequent(call.entries, ret[1])
    /\ ret[1] # Rounded(ValidPings(call.entries)[1])
    /\ \E i \in DOMAIN call.entries : IsBlank(call.entries[i])

(* C6: when no rounded coordinate is strictly most frequent, find_home
   returns the first valid coordinate of the history. *)
C6_TieIsFirst ==
    (/\ FindHomeReturned
     /\ ~\E c \in Visited(call.entries) : StrictlyMostFrequent(call.entries, c))
       => ret[1] = Rounded(ValidPings(call.entries)[1])

\* user, date "MM/DD/YYYY" and time of the rows expected for d: one for
\* every valid ping, user by user, in input order
RECURSIVE RowKeys(_)
RowKeys(d) ==
    IF d = <<>> THEN <<>>
    ELSE LET v == ValidPings(Head(d).entries)
         IN  [i \in 1..Len(v) |->
                 <<Head(d).user,
                   <<v[i].key[2], v[i].key[3], v[i].key[1]>>,
                   <<v[i].key[4], v[i].key[5], v[i].key[6]>> >>]
             \o RowKeys(Tail(d))

(* C7: when write_out completes, the output is the header and then one row
   for every valid ping and none for any other, user by user, each user's
   rows in the order of the user's pings. *)
C7_OneRowPerValidPing ==
    pc = "done"
       => /\ Len(out) >= 1
          /\ out[1] = Header
          /\ [i \in 1..(Len(out) - 1) |->
                 <<out[i + 1].user, out[i + 1].date, out[i + 1].time>>]
               = RowKeys(data)

\* a completed run over two users with rows of both and a blank ping
C7_Witness ==
    /\ pc = "done"
    /\ Len(data) = 2
    /\ \E i \in 2..Len(out) : out[i].user = data[1].user
    /\ \E i \in 2..Len(out) : out[i].user = data[2].user
    /\ \E k \in 1..2 : \E i \in DOMAIN data[k].entries :
          IsBlank(data[k].entries[i])

(* C8: during a user's scan time_at_loc is a non-negative multiple of TSI,
   and the dwell of a row is at most TSI times the number of rows of the same
   user written before it. *)
C8_DwellMultipleOfTSI ==
    /\ u >= 1 => time_at_loc >= 0 /\ time_at_loc % TSI = 0
    /\ \A i \in 2..Len(out) :
          /\ out[i].dwell >= 0
          /\ out[i].dwell % TSI = 0
          /\ out[i].dwell
                <= TSI * Cardinality({j \in 2..(i - 1) : out[j].user = out[i].user})

\* the third row of a user carries dwell 2*TSI
C8_Witness ==
    /\ pc = "entry"
    /\ time_at_loc = 2 * TSI
    /\ Len(out) >= 4
    /\ out[Len(out)].dwell = 2 * TSI

\* within_tsi has returned
WithinTsiReturned ==
    /\ call # <<>>
    /\ call.fn = "within_tsi"
    /\ ret # <<>>
    /\ ~StrptimeRaises(call.before_date, call.before_time)
    /\ ~StrptimeRaises(call.after_date, call.after_time)

(* C9: within_tsi is true exactly when the second measurement is at most
   2*TSI*60 seconds after the first, also across a change of date. *)
C9_WithinTsiBoundary ==
    WithinTsiReturned
       => \A off \in Offsets :
             <<call.after_date, call.after_time>>
                 = Shift(<<call.before_date, call.before_time>>, off)
               => (ret[1] <=> off <= 2 * TSI * 60)

\* true at exactly 2*TSI minutes, over the end of a day
C9_Witness ==
    /\ WithinTsiReturned
    /\ call.before_date # call.after_date
    /\ <<call.after_date, call.after_time>>
          = Shift(<<call.before_date, call.before_time>>, 2 * TSI * 60)
    /\ ret = <<TRUE>>

(* C10: is_same_place is reflexive and symmetric, holds exactly when the
   latitudes and the longitudes are each at most 0.0002 apart, and is not
   transitive. *)
C10_SamePlaceIsTolerance ==
    (call # <<>> /\ call.fn = "is_same_place" /\ ret # <<>>)
       => /\ ret[1] <=> SameCoordinate(call.latlon_1, call.latlon_2)
          /\ call.latlon_1 = call.latlon_2 => ret[1]
          /\ ret[1] <=> is_same_place(call.latlon_2, call.latlon_1)
          /\ \E a \in Places, b \in Places, c \in Places :
                /\ is_same_place(a, b)
                /\ is_same_place(b, c)
                /\ ~is_same_place(a, c)

\* the first entry with both coordinates is within the margin of the initial
\* prev_latlon, so that line 140 is reached with prev_date = ""
FirstPingRaises(entries) ==
    /\ ValidPings(entries) # <<>>
    /\ is_same_place(Rounded(ValidPings(entries)[1]), <<NoLatLon, NoLatLon>>)

\* time_at_loc after the i-th ping of v, scanned from the values of lines
\* 111-114 (lines 139-146), when no ping of v raises
RECURSIVE DwellAfter(_, _)
DwellAfter(v, i) ==
    IF i <= 1 THEN 0
    ELSE IF is_same_place(Rounded(v[i]), StoredBefore(v, i))
         THEN IF within_tsi(DateOf(v[i - 1].key), TimeOf(v[i - 1].key),
                            DateOf(v[i].key), TimeOf(v[i].key))
              THEN DwellAfter(v, i - 1) + TSI
              ELSE 0
         ELSE 0

\* the number of rows written before the rows of the u-th user
RowsBefore == 1 + Len(RowKeys(SubSeq(data, 1, u - 1)))

(* C11: the rows do not depend on the random digits. Whatever digits are
   drawn, the rows written so far are the header, one row for every valid ping
   of the users before and one for every valid ping scanned of the current
   user; user, date, time and dwell of a row, time_at_loc and prev_latlon are
   what the pings alone determine; a row not at home carries the ping's
   rounded coordinate and a row at home the home's with at most the last
   digit changed. *)
C11_RowsIndependentOfDigits ==
    pc = "entry"
       => LET v == ValidPings(SubSeq(Entries, 1, e))
          IN  /\ Len(out) = RowsBefore + Len(v)
              /\ time_at_loc = DwellAfter(v, Len(v))
              /\ prev_latlon = StoredBefore(v, Len(v) + 1)
              /\ \E b \in BOOLEAN : home_latlon = find_home(Entries, b)
              /\ \A k \in 1..Len(v) :
                    LET row == out[RowsBefore + k]
                    IN  /\ row.user = data[u].user
                        /\ row.date = DateOf(v[k].key)
                        /\ row.time = TimeOf(v[k].key)
                        /\ row.dwell = DwellAfter(v, k)
                        /\ IF is_same_place(Rounded(v[k]), home_latlon)
                           THEN /\ AllButLast(row.lat) = AllButLast(home_latlon[1])
                                /\ AllButLast(row.lon) = AllButLast(home_latlon[2])
                           ELSE <<row.lat, row.lon>> = Rounded(v[k])

\* the second of two rows at home has dwell TSI, and its latitude and
\* longitude are not those of the ping: the digits drawn changed both
C11_Witness ==
    /\ pc = "entry"
    /\ e >= 2
    /\ ~IsBlank(Entries[e])
    /\ is_same_place(Rounded(Entries[e]), home_latlon)
    /\ Len(out) >= 3
    /\ out[Len(out)].dwell = TSI
    /\ out[Len(out)].lat # home_latlon[1]
    /\ out[Len(out)].lon # home_latlon[2]
    /\ out[Len(out) - 1].lat = out[Len(out)].lat

\* write_out has returned or has raised
Ended == pc \in {"done", "raised"}

(* C12: every execution of write_out, one that raises included, opens the
   sink once and ends with the sink closed. *)
C12_SinkClosedOnEveryEnd ==
    /\ pc = "open" <=> sink = "unopened"
    /\ Ended => sink = "closed"

\* the users of d without an entry with both coordinates
EmptyUsers(d) == {k \in DOMAIN d : ValidPings(d[k].entries) = <<>>}

(* C13: with a user without a valid ping in the input, the run goes on and
   completes: every other user, also one iterated after that user, gets a
   row for every valid ping. (Inputs where a user's first valid ping is at
   the initial prev_latlon are left aside.) *)
C13_EmptyUserSkipped ==
    (/\ Ended
     /\ EmptyUsers(data) # {}
     /\ \A k \in DOMAIN data : ~FirstPingRaises(data[k].entries))
       => /\ pc = "done"
          /\ [i \in 1..(Len(out) - 1) |->
                 <<out[i + 1].user, out[i + 1].date, out[i + 1].time>>]
               = RowKeys(data)

(* C14: the first valid ping of a user, wherever it is, takes the
   new-location branch: it is written with dwell 0, prev_latlon becomes its
   coordinate, and the scan goes on. *)
C14_FirstPingIsNewLocation ==
    [][ (AtValidPing /\ ValidPings(SubSeq(Entries, 1, e)) = <<>>)
          => /\ WritesRow
             /\ out'[Len(out')].dwell = 0
             /\ time_at_loc' = 0
             /\ prev_latlon' = Rounded(Entry)
             /\ pc' = "entry" ]_vars

\* the branch of lines 139-146 the entry takes: "raises" when line 140 is
\* reached and within_tsi raises
Branch ==
    IF ~is_same_place(Rounded(Entry), prev_latlon) THEN "new"
    ELSE IF StrptimeRaises(prev_date, prev_time) THEN "raises"
    ELSE IF within_tsi(prev_date, prev_time,
                       DateOf(Entry.key), TimeOf(Entry.key))
         THEN "continuous"
         ELSE "gap"

\* the last entry with both coordinates scanned so far
LastValid == LET v == ValidPings(SubSeq(Entries, 1, e)) IN v[Len(v)]

(* C15: a valid ping that takes the continuous, the gap or the new-location
   branch is written and leaves prev_date and prev_time at its own date and
   time; so when a valid ping arrives, prev_date and prev_time are those of
   the valid ping just before it, and a continuous ping after a gap ping
   counts from the gap ping. *)
C15_PrevTimeFollowsEveryPing ==
    [][ (AtValidPing /\ Branch # "raises")
          => /\ WritesRow
             /\ prev_date' = DateOf(Entry.key)
             /\ prev_time' = TimeOf(Entry.key)
             /\ ValidPings(SubSeq(Entries, 1, e)) # <<>>
                   => /\ prev_date = DateOf(LastValid.key)
                      /\ prev_time = TimeOf(LastValid.key)
                      /\ (/\ Branch = "continuous"
                          /\ out[Len(out)].dwell = 0)
                            => out'[Len(out')].dwell = TSI ]_vars

\* pings at one coordinate at 09:00, 09:05, 09:20, 09:25 are written with
\* dwell 0, TSI, 0, TSI
C15_Witness ==
    /\ pc = "entry"
    /\ Entries \in GapHistories
    /\ e = 4
    /\ Len(out) = 5
    /\ <<out[2].dwell, out[3].dwell, out[4].dwell, out[5].dwell>>
          = <<0, TSI, 0, TSI>>
    /\ prev_time = <<9, 25, 0>>

(* C16: prev_latlon changes only in the new-location branch, where it
   becomes the ping's rounded coordinate and the dwell 0; the other two
   branches leave it. After a valid ping prev_latlon is the coordinate of an
   earlier valid ping, every valid ping since is within 0.0002 of it on both
   axes, and a ping within 0.0002 of the ping before it but not of
   prev_latlon takes the new-location branch. *)
C16_AnchorOfSegment ==
    [][ (AtValidPing /\ Branch # "raises")
          => LET v == ValidPings(SubSeq(Entries, 1, e + 1))
                 n == Len(v)
             IN  /\ Branch = "new"
                      => /\ prev_latlon' = Rounded(Entry)
                         /\ time_at_loc' = 0
                         /\ out'[Len(out')].dwell = 0
                 /\ Branch # "new" => prev_latlon' = prev_latlon
                 /\ prev_latlon' # prev_latlon => Branch = "new"
                 /\ \E k \in 1..n :
                       /\ prev_latlon' = Rounded(v[k])
                       /\ \A j \in k..n :
                             SameCoordinate(Rounded(v[j]), Rounded(v[k]))
                 /\ (/\ n >= 2
                     /\ SameCoordinate(Rounded(v[n]), Rounded(v[n - 1]))
                     /\ ~SameCoordinate(Rounded(v[n]), prev_latlon))
                       => /\ Branch = "new"
                          /\ out'[Len(out')].dwell = 0
                          /\ prev_latlon' = Rounded(v[n]) ]_vars

\* three pings drifting: the second is at the place of the first, the third
\* within 0.0002 of the second but not of the first, and written with dwell 0
C16_Witness ==
    /\ pc = "entry"
    /\ e = 3
    /\ \A k \in 1..3 : ~IsBlank(Entries[k])
    /\ SameCoordinate(Rounded(Entries[3]), Rounded(Entries[2]))
    /\ ~SameCoordinate(Rounded(Entries[3]), Rounded(Entries[1]))
    /\ Len(out) = 4
    /\ <<out[2].dwell, out[3].dwell, out[4].dwell>> = <<0, TSI, 0>>
    /\ prev_latlon = Rounded(Entries[3])

\* the rows of out that carry the user name, in order
RowsOf(name) ==
    LET Mine(row) == row.user = name
    IN  SelectSeq(Tail(out), Mine)

\* rows are the rows write_out writes for a user whose history is the only
\* one of the input: none when that run raises before its first row, else
\* one for every valid ping, a row at home with the digits of the home but
\* the last
RowsAsAlone(rows, entries) ==
    LET v == ValidPings(entries)
    IN  IF v = <<>> \/ FirstPingRaises(entries) THEN rows = <<>>
        ELSE /\ Len(rows) = Len(v)
             /\ \E b \in BOOLEAN :
                   LET home == find_home(entries, b)
                   IN  \A i \in 1..Len(v) :
                          /\ rows[i].date = DateOf(v[i].key)
                          /\ rows[i].time = TimeOf(v[i].key)
                          /\ rows[i].dwell = DwellAfter(v, i)
                          /\ IF is_same_place(Rounded(v[i]), home)
                             THEN /\ AllButLast(rows[i].lat) = AllButLast(home[1])
                                  /\ AllButLast(rows[i].lon) = AllButLast(home[2])
                             ELSE <<rows[i].lat, rows[i].lon>> = Rounded(v[i])

(* C17: a user's scan starts with dwell 0 and the initial prev_latlon,
   prev_date and prev_time, and when write_out ends the rows of every user
   are, but for the random digits, the rows the user gets as the only user
   of the input, whatever other users there are and wherever they come in
   the order. *)
C17_NoLeakAcrossUsers ==
    /\ (pc = "entry" /\ e = 0)
          => /\ time_at_loc = 0
             /\ prev_latlon = <<NoLatLon, NoLatLon>>
             /\ prev_date = <<>>
             /\ prev_time = <<>>
    /\ Ended
          => \A k \in DOMAIN data :
                RowsAsAlone(RowsOf(data[k].user), data[k].entries)

(* C18: the home and its anonymized form are set when the user's scan
   starts, before any of the user's entries is scanned: the latitude gets the
   first digit drawn and the longitude the second, each in 0..9. Nothing
   changes them or draws again during the scan, and every row at home carries
   that latitude and that longitude. *)
C18_AnonymizedOncePerUser ==
    [][ /\ (pc = "user" /\ pc' = "entry")
              => /\ \E b \in BOOLEAN :
                       home_latlon' = find_home(data[u'].entries, b)
                 /\ rng[1] \in 0..MaxDigit
                 /\ rng[2] \in 0..MaxDigit
                 /\ anon_home_lat' = ReplaceLast(home_latlon'[1], rng[1])
                 /\ anon_home_lon' = ReplaceLast(home_latlon'[2], rng[2])
                 /\ rng' = SubSeq(rng, 3, Len(rng))
                 /\ e' = 0
                 /\ out' = out
        /\ pc = "entry"
              => /\ home_latlon' = home_latlon
                 /\ anon_home_lat' = anon_home_lat
                 /\ anon_home_lon' = anon_home_lon
                 /\ rng' = rng
        /\ (AtValidPing /\ WritesRow
                /\ is_same_place(Rounded(Entry), home_latlon))
              => /\ out'[Len(out')].lat = anon_home_lat
                 /\ out'[Len(out')].lon = anon_home_lon ]_vars

\* two rows at home carry one latitude and one longitude, drawn with
\* different digits of which the first is the last digit of the home latitude
C18_Witness ==
    /\ pc = "entry"
    /\ e = 2
    /\ \A k \in 1..2 :
          ~IsBlank(Entries[k]) /\ is_same_place(Rounded(Entries[k]), home_latlon)
    /\ Len(out) = 3
    /\ <<out[2].lat, out[2].lon>> = <<anon_home_lat, anon_home_lon>>
    /\ <<out[3].lat, out[3].lon>> = <<anon_home_lat, anon_home_lon>>
    /\ anon_home_lat = home_latlon[1]
    /\ anon_home_lon # home_latlon[2]

(* C19: a valid ping at prev_latlon that is at most 2*TSI minutes after the
   valid ping before it, and so also one at any time before it, is written
   with the dwell grown by exactly TSI, however much time has passed. *)
C19_WindowIsOneSided ==
    [][ (/\ AtValidPing
         /\ ValidPings(SubSeq(Entries, 1, e)) # <<>>
         /\ is_same_place(Rounded(Entry), prev_latlon)
         /\ ElapsedSeconds(LastValid.key, Entry.key) <= 2 * TSI * 60)
          => /\ WritesRow
             /\ out'[Len(out')].dwell = time_at_loc + TSI
             /\ time_at_loc' = time_at_loc + TSI ]_vars

\* three pings at one place, each earlier than the one before: the third is
\* written with dwell 2*TSI
C19_Witness ==
    /\ pc = "entry"
    /\ e = 3
    /\ \A k \in 1..3 : ~IsBlank(Entries[k])
    /\ ElapsedSeconds(Entries[1].key, Entries[2].key) < 0
    /\ ElapsedSeconds(Entries[2].key, Entries[3].key) < 0
    /\ out[Len(out)].dwell = 2 * TSI
    /\ time_at_loc = 2 * TSI

====
